---- MODULE Spec2Model ----
(***************************************************************************)
(* Model of the Rubin ToO exposure-time calculator (src/etc.py) and of the *)
(* close-approach query (src/models/sso_routines.py).                      *)
(*                                                                         *)
(* Floating-point numbers are modelled as decimal floats with a six-digit  *)
(* mantissa: [k |-> "num", m |-> mantissa, e |-> exponent] stands for      *)
(* m * 10^(e-5), with 10^5 <= |m| < 10^6 (or m = 0), together with the     *)
(* IEEE specials "nan" and "inf".  Relative precision is about 1e-5, below *)
(* the 1e-4 tolerance of the repository's tests.                           *)
(***************************************************************************)
EXTENDS Integers, Sequences, FiniteSets, TLC

----------------------------------------------------------------------------
(* Decimal floating point: the arithmetic of Python floats / numpy float64 *)

Abs(x) == IF x < 0 THEN -x ELSE x

Sgn(x) == IF x < 0 THEN -1 ELSE IF x = 0 THEN 0 ELSE 1

\* integer division rounding to nearest
Round(x, d) == Sgn(x) * ((Abs(x) + d \div 2) \div d)

RECURSIVE Pow10Int(_)
Pow10Int(n) == IF n <= 0 THEN 1 ELSE 10 * Pow10Int(n - 1)

NaN == [k |-> "nan", m |-> 0, e |-> 0]

Inf(s) == [k |-> "inf", m |-> s, e |-> 0]

Zero == [k |-> "num", m |-> 0, e |-> 0]

IsNaN(a) == a.k = "nan"

IsFinite(a) == a.k = "num"

IsZero(a) == a.k = "num" /\ a.m = 0

\* a float64 overflows to inf above 10^308 and underflows to 0 below 10^-324
RECURSIVE Norm(_, _)
Norm(m, e) ==
    IF m = 0 THEN Zero
    ELSE IF Abs(m) >= 1000000 THEN Norm(Round(m, 10), e + 1)
    ELSE IF Abs(m) < 100000 THEN Norm(m * 10, e - 1)
    ELSE IF e > 308 THEN Inf(Sgn(m))
    ELSE IF e < -324 THEN Zero
    ELSE [k |-> "num", m |-> m, e |-> e]

\* the decimal literal n * 10^(-d), e.g. Dec(2297, 2) is 22.97
Dec(n, d) == Norm(n, 5 - d)

\* x * y / 10^5 for two mantissas, rounded
MulMant(x, y) == (x * (y \div 1000) + (x * (y % 1000) + 500) \div 1000 + 50) \div 100

\* the first n decimal digits of r / b for 0 <= r < b
RECURSIVE DivDigits(_, _, _)
DivDigits(r, b, n) ==
    IF n = 0 THEN 0
    ELSE ((r * 10) \div b) * Pow10Int(n - 1) + DivDigits((r * 10) % b, b, n - 1)

\* x * 10^6 / y for two mantissas
DivMant(x, y) == (x \div y) * 1000000 + DivDigits(x % y, y, 6)

FNeg(a) == IF a.k = "nan" THEN NaN ELSE [a EXCEPT !.m = -a.m]

FAbs(a) == IF a.k = "nan" THEN NaN ELSE [a EXCEPT !.m = Abs(a.m)]

FMul(a, b) ==
    IF a.k = "nan" \/ b.k = "nan" THEN NaN
    ELSE IF a.k = "inf" \/ b.k = "inf"
         THEN IF a.m = 0 \/ b.m = 0 THEN NaN ELSE Inf(Sgn(a.m) * Sgn(b.m))
    ELSE Norm(Sgn(a.m) * Sgn(b.m) * MulMant(Abs(a.m), Abs(b.m)), a.e + b.e)

\* IEEE division (numpy): a zero divisor gives inf or nan, never an exception
FDiv(a, b) ==
    IF a.k = "nan" \/ b.k = "nan" THEN NaN
    ELSE IF a.k = "inf"
         THEN IF b.k = "inf" THEN NaN
              ELSE Inf(Sgn(a.m) * (IF b.m < 0 THEN -1 ELSE 1))
    ELSE IF b.k = "inf" THEN Zero
    ELSE IF b.m = 0 THEN (IF a.m = 0 THEN NaN ELSE Inf(Sgn(a.m)))
    ELSE IF a.m = 0 THEN Zero
    ELSE Norm(Sgn(a.m) * Sgn(b.m) * DivMant(Abs(a.m), Abs(b.m)), a.e - b.e - 1)

FAdd(a, b) ==
    IF a.k = "nan" \/ b.k = "nan" THEN NaN
    ELSE IF a.k = "inf"
         THEN IF b.k = "inf" /\ b.m # a.m THEN NaN ELSE a
    ELSE IF b.k = "inf" THEN b
    ELSE IF a.m = 0 THEN b
    ELSE IF b.m = 0 THEN a
    ELSE LET hi == IF a.e >= b.e THEN a ELSE b
             lo == IF a.e >= b.e THEN b ELSE a
             d  == hi.e - lo.e
         IN  IF d > 9 THEN hi
             ELSE Norm(hi.m * 1000 +
                       (IF d <= 3 THEN lo.m * Pow10Int(3 - d)
                                  ELSE Round(lo.m, Pow10Int(d - 3))),
                       hi.e - 3)

FSub(a, b) == FAdd(a, FNeg(b))

\* a < b on floats; FALSE when either is nan
FLess(a, b) ==
    LET d == FSub(b, a) IN d.k # "nan" /\ d.m > 0

\* 10^(d/10), 10^(d/100), ..., 10^(d/100000) for d = 0..9, times 10^5
PowTab(j) ==
    CASE j = 1 -> <<100000, 125893, 158489, 199526, 251189, 316228, 398107, 501187, 630957, 794328>>
      [] j = 2 -> <<100000, 102329, 104713, 107152, 109648, 112202, 114815, 117490, 120226, 123027>>
      [] j = 3 -> <<100000, 100231, 100462, 100693, 100925, 101158, 101391, 101625, 101859, 102094>>
      [] j = 4 -> <<100000, 100023, 100046, 100069, 100092, 100115, 100138, 100161, 100184, 100207>>
      [] j = 5 -> <<100000, 100002, 100005, 100007, 100009, 100012, 100014, 100016, 100018, 100021>>

\* 10^(fr/10^5) * 10^5 for fr in 0..99999
PowMant(fr) ==
    MulMant(MulMant(MulMant(PowTab(1)[(fr \div 10000) + 1],
                            PowTab(2)[((fr \div 1000) % 10) + 1]),
                    MulMant(PowTab(3)[((fr \div 100) % 10) + 1],
                            PowTab(4)[((fr \div 10) % 10) + 1])),
            PowTab(5)[(fr % 10) + 1])

\* 10 ** a on floats: overflow gives inf, underflow gives 0
FPow10(a) ==
    IF a.k = "nan" THEN NaN
    ELSE IF a.k = "inf" THEN (IF a.m > 0 THEN Inf(1) ELSE Zero)
    ELSE IF a.m = 0 \/ a.e < -6 THEN Dec(1, 0)
    ELSE IF a.e >= 3 THEN (IF a.m > 0 THEN Inf(1) ELSE Zero)
    ELSE LET fixed == IF a.e >= 0 THEN a.m * Pow10Int(a.e)
                      ELSE Round(a.m, Pow10Int(-a.e))
         IN  Norm(PowMant(fixed % 100000), fixed \div 100000)

\* bisection: lo, hi with PowMant(lo) <= m < PowMant(hi)
RECURSIVE LogSearch(_, _, _)
LogSearch(m, lo, hi) ==
    IF hi - lo <= 1 THEN lo
    ELSE LET mid == (lo + hi) \div 2
         IN  IF PowMant(mid) <= m THEN LogSearch(m, mid, hi) ELSE LogSearch(m, lo, mid)

\* log10(m / 10^5) * 10^5 for a mantissa m in 100000..999999: the inverse of PowMant
LogMant(m) ==
    LET lo == LogSearch(m, 0, 100000)
    IN  IF lo < 99999 /\ PowMant(lo + 1) - m < m - PowMant(lo) THEN lo + 1 ELSE lo

\* np.log10: nan for a negative argument, -inf for zero
FLog10(a) ==
    IF a.k = "nan" THEN NaN
    ELSE IF a.m < 0 THEN NaN
    ELSE IF a.k = "inf" THEN Inf(1)
    ELSE IF a.m = 0 THEN Inf(-1)
    ELSE Norm(a.e * 100000 + LogMant(a.m), 0)

\* np.log10 issues a RuntimeWarning for a negative or zero argument
LogWarns(a) == a.k # "nan" /\ a.m <= 0

\* |a - b| <= rtol * |b| with rtol = 10^(-digits), as numpy's assert_allclose;
\* two nans are close to each other
IsClose(a, b, digits) ==
    IF a.k = "nan" \/ b.k = "nan" THEN a.k = b.k
    ELSE IF a.k = "inf" \/ b.k = "inf" THEN a = b
    ELSE ~FLess(FAbs(FMul(Dec(1, digits), b)), FAbs(FSub(a, b)))

----------------------------------------------------------------------------
(* Exact rationals [n, d] with d > 0, in lowest terms: the arithmetic of   *)
(* the time budget (float64 rounding, of relative size 1e-16, is not       *)
(* modelled there).                                                        *)

RECURSIVE GCD(_, _)
GCD(a, b) == IF b = 0 THEN a ELSE GCD(b, a % b)

Rat(n, d) ==
    LET g == GCD(Abs(n), Abs(d))
    IN  IF n = 0 THEN [n |-> 0, d |-> 1]
        ELSE [n |-> Sgn(d) * (n \div g), d |-> Abs(d) \div g]

RAdd(a, b) == Rat(a.n * b.d + b.n * a.d, a.d * b.d)

RSub(a, b) == Rat(a.n * b.d - b.n * a.d, a.d * b.d)

RMul(a, b) == Rat(a.n * b.n, a.d * b.d)

\* a / b for b # 0
RDiv(a, b) == Rat(a.n * b.d, a.d * b.n)

RLeq(a, b) == a.n * b.d <= b.n * a.d

----------------------------------------------------------------------------
(* Python values and calls *)

Returned(v) == [k |-> "ret", v |-> v, exc |-> ""]

Raised(exc) == [k |-> "raise", v |-> <<>>, exc |-> exc]

\* an optional argument: <<>> when the caller omits it, <<x>> when given
Omitted == <<>>

Given(x) == <<x>>

\* dict.get(key, default)
DictGet(d, key, default) == IF key \in DOMAIN d THEN d[key] ELSE default

Bands == {"u", "g", "r", "i", "z", "y"}

\* the module-level table params
ParamTable ==
    [f \in Bands |->
       CASE f = "u" -> [Cm |-> Dec(2297, 2), dCm_inf |-> Dec(54, 2), zp |-> Dec(2652, 2),
                        fwhm |-> Dec(92, 2), m_darksky |-> Dec(2305, 2), k_atm |-> Dec(47, 2)]
         [] f = "g" -> [Cm |-> Dec(2458, 2), dCm_inf |-> Dec(9, 2), zp |-> Dec(2851, 2),
                        fwhm |-> Dec(87, 2), m_darksky |-> Dec(2225, 2), k_atm |-> Dec(21, 2)]
         [] f = "r" -> [Cm |-> Dec(246, 1), dCm_inf |-> Dec(4, 2), zp |-> Dec(2836, 2),
                        fwhm |-> Dec(83, 2), fwhm_twilight |-> Dec(143, 2),
                        m_darksky |-> Dec(212, 1), m_twilight |-> Dec(1947, 2),
                        k_atm |-> Dec(13, 2)]
         [] f = "i" -> [Cm |-> Dec(2454, 2), dCm_inf |-> Dec(3, 2), zp |-> Dec(2817, 2),
                        fwhm |-> Dec(80, 2), fwhm_twilight |-> Dec(149, 2),
                        m_darksky |-> Dec(2046, 2), m_twilight |-> Dec(1868, 2),
                        k_atm |-> Dec(10, 2)]
         [] f = "z" -> [Cm |-> Dec(2437, 2), dCm_inf |-> Dec(2, 2), zp |-> Dec(2778, 2),
                        fwhm |-> Dec(78, 2), fwhm_twilight |-> Dec(142, 2),
                        m_darksky |-> Dec(1961, 2), m_twilight |-> Dec(1792, 2),
                        k_atm |-> Dec(7, 2)]
         [] f = "y" -> [Cm |-> Dec(2384, 2), dCm_inf |-> Dec(2, 2), zp |-> Dec(2682, 2),
                        fwhm |-> Dec(76, 2), m_darksky |-> Dec(186, 1), k_atm |-> Dec(17, 2)]]

VARIABLES
    params,       \* etc.params, the filter parameter table
    warnfilters,  \* warnings.filters, the process-wide list of warning filters
    call          \* the client's current call: operation, arguments, outcome,
                  \* lines printed; [op |-> "none"] between two calls

vars == <<params, warnfilters, call>>

----------------------------------------------------------------------------
(* The warnings module *)

\* warnings.simplefilter(action, category): the entry is moved or inserted at
\* the front of warnings.filters
simplefilter(fl, action, category) ==
    LET item == <<action, category>>
    IN  <<item>> \o SelectSeq(fl, LAMBDA x : x # item)

\* the action of the first filter that matches a RuntimeWarning ("default":
\* the warning is printed on stderr)
WarnAction(fl) ==
    LET hits == SelectSeq(fl, LAMBDA x : x[2] \in {"RuntimeWarning", "Warning"})
    IN  IF hits = <<>> THEN "default" ELSE hits[1][1]

\* the interpreter's default filters, and the same under -W error::RuntimeWarning
DefaultFilters ==
    << <<"default", "DeprecationWarning">>, <<"ignore", "DeprecationWarning">>,
       <<"ignore", "PendingDeprecationWarning">>, <<"ignore", "ImportWarning">>,
       <<"ignore", "ResourceWarning">> >>

StartFilters == {DefaultFilters, <<<<"error", "RuntimeWarning">>>> \o DefaultFilters}

----------------------------------------------------------------------------
(* get_exptime and get_m5 *)

\* a variant in which the default airmass is 1.2
X_default_am12 == Dec(12, 1)

\* the defaults of the keyword arguments X=1.0 of get_exptime and of get_m5
get_exptime_X_default == Dec(10, 1)

get_m5_X_default == Dec(10, 1)

\* a variant with the sign of the fallback lost
twilight_missing_positive == Dec(990, 1)

\* the fallback of params[filt].get('m_twilight', -99.0) and of
\* params[filt].get("fwhm_twilight", -99.0)
twilight_missing == Dec(-990, 1)

m_sky_of(p, filt, twilight) ==
    IF twilight THEN DictGet(p[filt], "m_twilight", twilight_missing)
    ELSE p[filt].m_darksky

fwhm_of(p, filt, twilight) ==
    IF twilight THEN DictGet(p[filt], "fwhm_twilight", twilight_missing)
    ELSE p[filt].fwhm

\* warnings.filters after the "if twilight:" block
twilight_filters(fl, twilight) ==
    IF twilight THEN simplefilter(fl, "ignore", "RuntimeWarning") ELSE fl

\* the extinction term k_atm*(X - 1.0)
extinction(p, filt, X) == FMul(p[filt].k_atm, FSub(X, Dec(10, 1)))

\* the exponent (1 / 1.25) * (m5 - Cm - dCm - 0.5*(m_sky - 21.)
\*                            - 2.5*np.log10(0.7/fwhm) + k_atm*(X - 1.0)), dCm = 0
exptime_exponent(p, m5, filt, X, twilight) ==
    LET Cm    == p[filt].Cm
        m_sky == m_sky_of(p, filt, twilight)
        fwhm  == fwhm_of(p, filt, twilight)
        dCm   == Zero
        t1    == FSub(FSub(m5, Cm), dCm)
        t2    == FSub(t1, FMul(Dec(5, 1), FSub(m_sky, Dec(21, 0))))
        t3    == FSub(t2, FMul(Dec(25, 1), FLog10(FDiv(Dec(7, 1), fwhm))))
        t4    == FAdd(t3, extinction(p, filt, X))
    IN  FMul(FDiv(Dec(1, 0), Dec(125, 2)), t4)

\* exptime = 30 * 10 ** exponent
exptime_value(p, m5, filt, X, twilight) ==
    FMul(Dec(30, 0), FPow10(exptime_exponent(p, m5, filt, X, twilight)))

\* numpy issues a RuntimeWarning: log10 of a negative ratio, or overflow in power
exptime_warns(p, m5, filt, X, twilight) ==
    LET ex == exptime_exponent(p, m5, filt, X, twilight)
    IN  \/ LogWarns(FDiv(Dec(7, 1), fwhm_of(p, filt, twilight)))
        \/ (IsFinite(ex) /\ ~IsFinite(FPow10(ex)))

\* get_exptime(m5, filt, X, twilight) called with warnings.filters = fl:
\* the outcome and warnings.filters afterwards
get_exptime(p, fl, m5, filt, Xarg, twilight) ==
    LET X   == IF Xarg = Omitted THEN get_exptime_X_default ELSE Xarg[1]
        fl2 == twilight_filters(fl, twilight)
    IN  IF filt \notin DOMAIN p
        THEN [res |-> Raised("KeyError"), filters |-> fl]
        ELSE IF exptime_warns(p, m5, filt, X, twilight) /\ WarnAction(fl2) = "error"
        THEN [res |-> Raised("RuntimeWarning"), filters |-> fl2]
        ELSE [res |-> Returned(exptime_value(p, m5, filt, X, twilight)), filters |-> fl2]

\* Tscale = exptime / 30. * 10**(-1 * 0.4 * (m_sky - m_darksky))
Tscale_of(p, exptime, filt, twilight) ==
    FMul(FDiv(exptime, Dec(30, 0)),
         FPow10(FMul(FMul(Dec(-1, 0), Dec(4, 1)),
                     FSub(m_sky_of(p, filt, twilight), p[filt].m_darksky))))

\* the argument of the logarithm in dCm: 1 + (10**(0.8 * dCm_inf) - 1) / Tscale
dCm_log_arg(p, exptime, filt, twilight) ==
    FAdd(Dec(1, 0),
         FDiv(FSub(FPow10(FMul(Dec(8, 1), p[filt].dCm_inf)), Dec(1, 0)),
              Tscale_of(p, exptime, filt, twilight)))

\* m5 = Cm + dCm + 0.5*(m_sky - 21.) + 2.5*np.log10(0.7/fwhm)
\*      + 1.25*np.log10(exptime/30.) - k_atm*(X - 1.0)
m5_value(p, exptime, filt, X, twilight) ==
    LET Cm    == p[filt].Cm
        m_sky == m_sky_of(p, filt, twilight)
        fwhm  == fwhm_of(p, filt, twilight)
        dCm   == FSub(p[filt].dCm_inf,
                      FMul(Dec(125, 2), FLog10(dCm_log_arg(p, exptime, filt, twilight))))
        t1    == FAdd(Cm, dCm)
        t2    == FAdd(t1, FMul(Dec(5, 1), FSub(m_sky, Dec(21, 0))))
        t3    == FAdd(t2, FMul(Dec(25, 1), FLog10(FDiv(Dec(7, 1), fwhm))))
        t4    == FAdd(t3, FMul(Dec(125, 2), FLog10(FDiv(exptime, Dec(30, 0)))))
    IN  FSub(t4, extinction(p, filt, X))

\* numpy issues a RuntimeWarning: division by a zero float64, or log10 of a
\* negative or zero argument
m5_warns(p, exptime, filt, X, twilight) ==
    \/ IsZero(Tscale_of(p, exptime, filt, twilight))
    \/ LogWarns(dCm_log_arg(p, exptime, filt, twilight))
    \/ LogWarns(FDiv(Dec(7, 1), fwhm_of(p, filt, twilight)))
    \/ LogWarns(FDiv(exptime, Dec(30, 0)))

\* the keyword arguments get_m5 accepts besides exptime and filt
get_m5_keywords == {"X", "twilight"}

\* get_m5(exptime, filt, X, twilight, **kw) called with warnings.filters = fl.
\* exptime is [ty, v]: a Python number ("py") or a numpy float64 ("np"); a
\* Python float divided by a zero Python float raises ZeroDivisionError.
get_m5(p, fl, exptime, filt, Xarg, twilight, kw) ==
    LET X   == IF Xarg = Omitted THEN get_m5_X_default ELSE Xarg[1]
        fl2 == twilight_filters(fl, twilight)
    IN  IF ~(kw \subseteq get_m5_keywords)
        THEN [res |-> Raised("TypeError"), filters |-> fl]
        ELSE IF filt \notin DOMAIN p
        THEN [res |-> Raised("KeyError"), filters |-> fl]
        ELSE IF exptime.ty = "py" /\ IsZero(Tscale_of(p, exptime.v, filt, twilight))
        THEN [res |-> Raised("ZeroDivisionError"), filters |-> fl2]
        ELSE IF m5_warns(p, exptime.v, filt, X, twilight) /\ WarnAction(fl2) = "error"
        THEN [res |-> Raised("RuntimeWarning"), filters |-> fl2]
        ELSE [res |-> Returned(m5_value(p, exptime.v, filt, X, twilight)), filters |-> fl2]

----------------------------------------------------------------------------
(* calc_trailing_losses *)

\* physical quantities are [unit, v]; a bare number has unit ""
Qty(v, unit) == [unit |-> unit, v |-> v]

\* the physical type of a unit
Dimension(unit) ==
    CASE unit \in {"deg/day", "arcsec/min"} -> "angle/time"
      [] unit \in {"arcsec", "deg"}         -> "angle"
      [] unit \in {"s", "min"}              -> "time"
      [] OTHER                              -> "none"

\* q.to(target).value for a convertible quantity: deg/day, arcsec or s
ToUnit(q, target) ==
    CASE q.unit = target       -> q.v
      [] q.unit = "arcsec/min" -> FMul(q.v, Dec(4, 1))
      [] q.unit = "deg"        -> FMul(q.v, Dec(3600, 0))
      [] q.unit = "min"        -> FMul(q.v, Dec(60, 0))

\* q.to(target) inside the body: "" when it converts, else the exception (a
\* bare number has no method "to")
to_error(q, target) ==
    IF q.unit = "" THEN "AttributeError"
    ELSE IF Dimension(q.unit) # Dimension(target) THEN "UnitConversionError"
    ELSE ""

\* one argument under @u.quantity_input: "" when it passes, else the exception
quantity_check(q, target) ==
    IF q.unit = "" THEN "TypeError"
    ELSE IF Dimension(q.unit) # Dimension(target) THEN "UnitsError"
    ELSE ""

\* a variant of the decorator that leaves out exptime=u.s
quantity_input_no_exptime(velocity, seeing, exptime) ==
    LET cv == quantity_check(velocity, "deg/day")
        cs == quantity_check(seeing, "arcsec")
    IN  IF cv # "" THEN cv ELSE cs

\* @u.quantity_input(velocity=u.deg/u.day, seeing=u.arcsec, exptime=u.s): the
\* arguments are validated in order before the function body runs
quantity_input(velocity, seeing, exptime) ==
    LET cv == quantity_check(velocity, "deg/day")
        cs == quantity_check(seeing, "arcsec")
        ct == quantity_check(exptime, "s")
    IN  IF cv # "" THEN cv ELSE IF cs # "" THEN cs ELSE ct

\* x = velocity * exptime / seeing / 24.0 in canonical units
trailing_x(velocity, seeing, exptime) ==
    FDiv(FDiv(FMul(ToUnit(velocity, "deg/day"), ToUnit(exptime, "s")),
              ToUnit(seeing, "arcsec")),
         Dec(24, 0))

\* a variant with the powers of x exchanged: 1 + a * x / (1 + b * x**2)
loss_log_arg_swapped(a, b, x) ==
    FAdd(Dec(1, 0), FDiv(FMul(a, x), FAdd(Dec(1, 0), FMul(b, FMul(x, x)))))

\* the argument of the logarithm: 1 + a * x**2 / (1 + b * x)
loss_log_arg(a, b, x) ==
    FAdd(Dec(1, 0), FDiv(FMul(a, FMul(x, x)), FAdd(Dec(1, 0), FMul(b, x))))

\* dmag = 1.25 * np.log10(1 + a * x**2 / (1 + b * x))
dmag(a, b, x) == FMul(Dec(125, 2), FLog10(loss_log_arg(a, b, x)))

\* numpy issues a RuntimeWarning in the body: a division by zero or a log10
\* of a negative or zero argument
trailing_warns(velocity, seeing, exptime) ==
    LET x == trailing_x(velocity, seeing, exptime)
    IN  \/ IsZero(ToUnit(seeing, "arcsec"))
        \/ \E ab \in {<<Dec(761, 3), Dec(1162, 3)>>, <<Dec(420, 3), Dec(3, 3)>>} :
              \/ IsZero(FAdd(Dec(1, 0), FMul(ab[2], x)))
              \/ LogWarns(loss_log_arg(ab[1], ab[2], x))

\* the conversions of the line computing x, in the order velocity, exptime,
\* seeing: "" when all succeed, else the first exception
conversion_error(velocity, seeing, exptime) ==
    LET ev == to_error(velocity, "deg/day")
        et == to_error(exptime, "s")
        es == to_error(seeing, "arcsec")
    IN  IF ev # "" THEN ev ELSE IF et # "" THEN et ELSE es

\* calc_trailing_losses(velocity, seeing, exptime) called with
\* warnings.filters = fl; `body` tells whether the function body was entered
calc_trailing_losses(fl, velocity, seeing, exptime) ==
    LET bad == quantity_input(velocity, seeing, exptime)
        x   == trailing_x(velocity, seeing, exptime)
    IN  IF bad # ""
        THEN [res |-> Raised(bad), body |-> FALSE]
        ELSE IF conversion_error(velocity, seeing, exptime) # ""
        THEN [res |-> Raised(conversion_error(velocity, seeing, exptime)), body |-> TRUE]
        ELSE IF trailing_warns(velocity, seeing, exptime) /\ WarnAction(fl) = "error"
        THEN [res |-> Raised("RuntimeWarning"), body |-> TRUE]
        ELSE [res  |-> Returned(<<dmag(Dec(761, 3), Dec(1162, 3), x),
                                  dmag(Dec(420, 3), Dec(3, 3), x)>>),
              body |-> TRUE]

----------------------------------------------------------------------------
(* calc_event_time_budget *)

RInt(n) == Rat(n, 1)

\* overheads, in seconds
overhead_between_exposures == RInt(7)

overhead_first_slew == RInt(30)

overhead_filter_change == RInt(120)

\* the fraction of nights in which the u band is mounted
u_days_ratio == Rat(14, 30)

\* a variant that tests the number of exposure times instead
six_exptimes(filters, exptimes) == Len(exptimes) = 6

\* "if len(filters) == 6"
six_filters(filters, exptimes) == Len(filters) = 6

\* the loop over zip(filters, exptimes): pairs up to the shorter sequence
RECURSIVE combine_u_y(_, _, _)
combine_u_y(filters, exptimes, i) ==
    IF i > Len(filters) \/ i > Len(exptimes) THEN RInt(0)
    ELSE RAdd(IF filters[i] = "u" THEN RMul(RInt(exptimes[i]), u_days_ratio)
              ELSE IF filters[i] = "y"
                   THEN RMul(RInt(exptimes[i]), RSub(RInt(1), u_days_ratio))
              ELSE RInt(exptimes[i]),
              combine_u_y(filters, exptimes, i + 1))

\* a variant that takes the first exposure time for the sum
np_first(xs) == IF xs = <<>> THEN 0 ELSE Head(xs)

\* np.sum(exptimes)
RECURSIVE np_sum(_)
np_sum(xs) == IF xs = <<>> THEN 0 ELSE Head(xs) + np_sum(Tail(xs))

\* a variant with the original "- 1": one overhead per gap between exposures
overhead_between_gaps(exptimes) ==
    RMul(overhead_between_exposures, RInt(Len(exptimes) - 1))

\* the visit's overheads in the branch for at most five filters
overhead_between_exposures_visit(exptimes) ==
    RMul(overhead_between_exposures, RInt(Len(exptimes)))

overhead_filter_change_visit(exptimes) ==
    RMul(overhead_filter_change, RInt(Len(exptimes)))

\* the running totals when the branches join: only the branch for at most
\* five filters adds the visit's exposure time and overheads to them
budget_totals(filters, exptimes) ==
    IF six_filters(filters, exptimes)
    THEN [overhead_between_exposures_visit |-> RMul(overhead_between_exposures, RInt(4)),
          overhead_filter_change_visit     |-> RMul(overhead_filter_change, RInt(5)),
          exptime_visit                    |-> combine_u_y(filters, exptimes, 1),
          exptime_total                    |-> RInt(0),
          overhead_between_exposures_total |-> RInt(0),
          overhead_filter_change_total     |-> RInt(0),
          overhead_first_slew_total        |-> overhead_first_slew]
    ELSE [overhead_between_exposures_visit |-> overhead_between_exposures_visit(exptimes),
          overhead_filter_change_visit     |-> overhead_filter_change_visit(exptimes),
          exptime_visit                    |-> RInt(np_sum(exptimes)),
          exptime_total                    |-> RInt(np_sum(exptimes)),
          overhead_between_exposures_total |-> overhead_between_exposures_visit(exptimes),
          overhead_filter_change_total     |-> overhead_filter_change_visit(exptimes),
          overhead_first_slew_total        |-> overhead_first_slew]

\* x/60/60
per_hour(x) == RDiv(RDiv(x, RInt(60)), RInt(60))

\* budget_strategy_nfields_hr, for n_fields # 0
budget_strategy_nfields_hr(n_fields, filters, exptimes) ==
    LET t == budget_totals(filters, exptimes)
        n == RInt(n_fields)
        overheads_total_nfields ==
            RAdd(RAdd(per_hour(RMul(t.overhead_between_exposures_total, n)),
                      per_hour(RDiv(t.overhead_first_slew_total, n))),
                 per_hour(RDiv(t.overhead_filter_change_total, n)))
        total_exposure_time_hr == per_hour(t.exptime_total)
    IN  RAdd(RMul(total_exposure_time_hr, n), overheads_total_nfields)

\* the lines printed before the totals are computed
epoch_report(filters, exptimes) ==
    IF six_filters(filters, exptimes) THEN <<>>
    ELSE <<"Epoch T+4 hr", "exposure times", "overhead change filter",
           "overhead between exposures">>

\* calc_event_time_budget(n_fields, filters, exptimes): an int divided by the
\* int 0 raises ZeroDivisionError
calc_event_time_budget(n_fields, filters, exptimes) ==
    IF n_fields = 0
    THEN [res |-> Raised("ZeroDivisionError"), out |-> epoch_report(filters, exptimes)]
    ELSE [res |-> Returned(budget_strategy_nfields_hr(n_fields, filters, exptimes)),
          out |-> epoch_report(filters, exptimes) \o
                  <<"Total exposure time per pointing", "Total time for fields", "--">>]

----------------------------------------------------------------------------
(* models/sso_routines.py: query_close_approachers.  The remote service is  *)
(* the environment: what requests.get does is one of RemoteOutcomes.        *)

\* close_approachers = {}
close_approachers_empty == <<>>

\* the URL built from the arguments (the dates are the defaults)
query_url(miss_distance, max_H) ==
    [dist_max |-> miss_distance, h_max |-> max_H, date_min |-> "2023-03-14",
     date_max |-> "2024-03-14", sort |-> "dist", diameter |-> "true"]

\* requests.get(query_url) returned a response with this status and body
Response(status, body) == [kind |-> "response", status |-> status, body |-> body]

\* requests.get(query_url) raised: no response was received
RequestFailed(exc) == [kind |-> "raise", exc |-> exc]

\* the body of a response as JSON text of a catalogue of n objects
CatalogText(n) == [json |-> TRUE, count |-> n]

\* a body that is not JSON (an HTML error page)
HtmlText == [json |-> FALSE]

\* resp.json(): the decoded dictionary, or JSONDecodeError
resp_json(resp) ==
    IF resp.body.json
    THEN Returned([signature |-> "1.5", count |-> resp.body.count,
                   fields |-> <<"des", "orbit_id", "jd", "dist">>,
                   data |-> [i \in 1..resp.body.count |-> <<"des", i>>]])
    ELSE Raised("JSONDecodeError")

\* query_close_approachers(miss_distance, max_H) when requests.get behaves as
\* `remote`: the outcome and the requests sent.  There is no try/except: an
\* exception of requests.get or of resp.json() leaves the function.
query_close_approachers(miss_distance, max_H, remote) ==
    [res |-> IF remote.kind = "raise" THEN Raised(remote.exc)
             ELSE IF remote.status = 200 THEN resp_json(remote)
             ELSE Returned(close_approachers_empty),
     requests |-> <<query_url(miss_distance, max_H)>>]

----------------------------------------------------------------------------
(* The calls a client makes, with arguments drawn from bounded sets *)

\* the largest number of fields, and the longest list of equal exposure times
MaxFields == 3

MaxExps == 6

\* the depths of the tests, one per band
M5Args == {Dec(2370, 2), Dec(2497, 2), Dec(2452, 2), Dec(2413, 2), Dec(2356, 2), Dec(2255, 2)}

\* airmass omitted, zenith, 1.2, and 20 degrees of altitude
XArgs == {Omitted, Given(Dec(10, 1)), Given(Dec(12, 1)), Given(Dec(292, 2))}

\* the six bands and a letter that is not in the table
FiltArgs == Bands \cup {"w"}

ExptimeArgs ==
    {[ty |-> "py", v |-> Dec(30, 0)], [ty |-> "py", v |-> Dec(15, 0)],
     [ty |-> "py", v |-> Zero], [ty |-> "py", v |-> Dec(-30, 0)],
     [ty |-> "np", v |-> Zero], [ty |-> "np", v |-> Dec(30, 0)]}

\* keyword arguments passed besides X and twilight
KeywordArgs == {{}, {"velocity"}}

VelocityArgs ==
    {Qty(Dec(2, 0), "deg/day"), Qty(Dec(5, 0), "arcsec/min"), Qty(Zero, "deg/day"),
     Qty(Dec(1, 0), "arcsec/min"), Qty(Dec(10, 0), "deg/day"),
     Qty(Dec(2, 0), ""), Qty(Dec(2, 0), "s")}

SeeingArgs == {Qty(Dec(8, 1), "arcsec"), Qty(Dec(8, 1), ""), Qty(Dec(8, 1), "s")}

TimeArgs ==
    {Qty(Dec(30, 0), "s"), Qty(Dec(5, 1), "min"), Qty(Dec(15, 0), ""),
     Qty(Dec(30, 0), "arcsec")}

FilterLists ==
    {<<"griz">>, <<"g", "r", "i", "z">>, <<"g", "r">>, <<>>,
     <<"u", "g", "r", "i", "z", "y">>, <<"y", "z", "i", "r", "g", "u">>,
     <<"g", "r", "i", "z", "g", "r">>}

ExptimeLists ==
    {[i \in 1..k |-> 30] : k \in 0..MaxExps} \cup
    {<<15, 30, 30, 30, 30, 60>>, <<60, 30, 15, 30, 30, 15>>, <<30, 60>>}

\* what the remote service can do with one request
RemoteOutcomes ==
    {Response(200, CatalogText(0)), Response(200, CatalogText(2)), Response(200, HtmlText),
     Response(204, HtmlText), Response(400, CatalogText(0)), Response(404, HtmlText),
     Response(500, HtmlText), Response(503, HtmlText),
     RequestFailed("ConnectionError"), RequestFailed("Timeout")}

MissDistanceArgs == {"1LD", "0.05"}

MaxHArgs == {"28.0", "22.0"}

NoCall == [op |-> "none"]

Init ==
    /\ params = ParamTable
    /\ warnfilters \in StartFilters
    /\ call = NoCall

Call_get_exptime ==
    /\ call = NoCall
    /\ \E m5 \in M5Args, filt \in FiltArgs, X \in XArgs, twilight \in BOOLEAN :
        LET r == get_exptime(params, warnfilters, m5, filt, X, twilight)
        IN  /\ call' = [op |-> "get_exptime",
                        args |-> [m5 |-> m5, filt |-> filt, X |-> X, twilight |-> twilight],
                        res |-> r.res]
            /\ warnfilters' = r.filters
            /\ UNCHANGED params

Call_get_m5 ==
    /\ call = NoCall
    /\ \E exptime \in ExptimeArgs, filt \in FiltArgs, X \in XArgs, twilight \in BOOLEAN,
       kw \in KeywordArgs :
        LET r == get_m5(params, warnfilters, exptime, filt, X, twilight, kw)
        IN  /\ call' = [op |-> "get_m5",
                        args |-> [exptime |-> exptime, filt |-> filt, X |-> X,
                                  twilight |-> twilight, kw |-> kw],
                        res |-> r.res]
            /\ warnfilters' = r.filters
            /\ UNCHANGED params

Call_calc_trailing_losses ==
    /\ call = NoCall
    /\ \E velocity \in VelocityArgs, seeing \in SeeingArgs, exptime \in TimeArgs :
        LET r == calc_trailing_losses(warnfilters, velocity, seeing, exptime)
        IN  /\ call' = [op |-> "calc_trailing_losses",
                        args |-> [velocity |-> velocity, seeing |-> seeing,
                                  exptime |-> exptime],
                        res |-> r.res, body |-> r.body]
            /\ UNCHANGED <<params, warnfilters>>

Call_calc_event_time_budget ==
    /\ call = NoCall
    /\ \E n_fields \in 0..MaxFields, filters \in FilterLists, exptimes \in ExptimeLists :
        LET r == calc_event_time_budget(n_fields, filters, exptimes)
        IN  /\ call' = [op |-> "calc_event_time_budget",
                        args |-> [n_fields |-> n_fields, filters |-> filters,
                                  exptimes |-> exptimes],
                        res |-> r.res, out |-> r.out]
            /\ UNCHANGED <<params, warnfilters>>

Call_query_close_approachers ==
    /\ call = NoCall
    /\ \E miss_distance \in MissDistanceArgs, max_H \in MaxHArgs, remote \in RemoteOutcomes :
        LET r == query_close_approachers(miss_distance, max_H, remote)
        IN  /\ call' = [op |-> "query_close_approachers",
                        args |-> [miss_distance |-> miss_distance, max_H |-> max_H],
                        remote |-> remote, res |-> r.res, requests |-> r.requests]
            /\ UNCHANGED <<params, warnfilters>>

\* the client takes the outcome of its call and goes on
Return ==
    /\ call # NoCall
    /\ call' = NoCall
    /\ UNCHANGED <<params, warnfilters>>

Next ==
    \/ Call_get_exptime
    \/ Call_get_m5
    \/ Call_calc_trailing_losses
    \/ Call_calc_event_time_budget
    \/ Call_query_close_approachers
    \/ Return

Spec == Init /\ [][Next]_vars

----------------------------------------------------------------------------
(* Properties of calc_event_time_budget *)

IsBudgetCall == call.op = "calc_event_time_budget"

RECURSIVE SumSeq(_)
SumSeq(xs) == IF xs = <<>> THEN 0 ELSE Head(xs) + SumSeq(Tail(xs))

\* [(exposure + between) * n + (30 + change) / n] / 3600, all in seconds
BudgetFormula(exposure, between, change, n) ==
    RDiv(RAdd(RMul(RAdd(exposure, RInt(between)), RInt(n)),
              RDiv(RInt(30 + change), RInt(n))),
         RInt(3600))

\* filters is an arrangement of the six bands
IsAllSix(filters) ==
    Len(filters) = 6 /\ {filters[i] : i \in 1..6} = Bands

\* exptime_u*14/30 + exptime_y*16/30 + the other four exposure times
CombinedExposure(filters, exptimes) ==
    LET W(f) == IF f = "u" THEN Rat(14, 30) ELSE IF f = "y" THEN Rat(16, 30) ELSE RInt(1)
        Part[i \in 0..6] ==
            IF i = 0 THEN RInt(0)
            ELSE RAdd(Part[i - 1], RMul(W(filters[i]), RInt(exptimes[i])))
    IN  Part[6]

\* C1: with exactly six filters the returned hours are
\* [(combined exposure + 4*7) * n_fields + (30 + 5*120) / n_fields] / 3600,
\* where the combined exposure weights u by 14/30 and y by 16/30, for every
\* n_fields >= 1 and every choice of the six exposure times.
C1_SixFilterBudget ==
    (/\ IsBudgetCall
     /\ IsAllSix(call.args.filters)
     /\ Len(call.args.exptimes) = 6
     /\ call.args.n_fields >= 1)
    => /\ call.res.k = "ret"
       /\ call.res.v = BudgetFormula(CombinedExposure(call.args.filters, call.args.exptimes),
                                     4 * 7, 5 * 120, call.args.n_fields)

\* C2: when filters does not have length 6, k exposure times and n_fields >= 1
\* give [(sum(exptimes) + 7k) * n_fields + (30 + 120k) / n_fields] / 3600 hours;
\* four 30 s exposures give 658/3600 h for one field and 551/3600 h for two.
C2_FiveFilterBudget ==
    (/\ IsBudgetCall
     /\ Len(call.args.filters) # 6
     /\ call.args.n_fields >= 1)
    => LET k == Len(call.args.exptimes)
           n == call.args.n_fields
       IN  /\ call.res.k = "ret"
           /\ call.res.v = BudgetFormula(RInt(SumSeq(call.args.exptimes)), 7 * k, 120 * k, n)
           /\ (call.args.exptimes = <<30, 30, 30, 30>> /\ n = 1
               => call.res.v = Rat(658, 3600))
           /\ (call.args.exptimes = <<30, 30, 30, 30>> /\ n = 2
               => call.res.v = Rat(551, 3600))

\* the default call over two fields has returned 551/3600 h
C2_Witness ==
    /\ IsBudgetCall
    /\ call.args = [n_fields |-> 2, filters |-> <<"griz">>, exptimes |-> <<30, 30, 30, 30>>]
    /\ call.res = Returned(Rat(551, 3600))

\* C3 as stated: a call whose filters and exptimes differ in length fails with
\* an error, for every n_fields and in both branches.
C3_LengthMismatchFails ==
    (IsBudgetCall /\ Len(call.args.filters) # Len(call.args.exptimes))
    => call.res.k = "raise"

\* C3 as amended: the lengths are never compared.  For n_fields >= 1 a call
\* whose filters and exptimes differ in length returns a time budget; unless
\* filters has length 6 it is the budget of the exposure times alone.
C3_LengthMismatchReturns ==
    (/\ IsBudgetCall
     /\ Len(call.args.filters) # Len(call.args.exptimes)
     /\ call.args.n_fields >= 1)
    => /\ call.res.k = "ret"
       /\ Len(call.args.filters) # 6
          => LET k == Len(call.args.exptimes)
             IN  call.res.v = BudgetFormula(RInt(SumSeq(call.args.exptimes)),
                                            7 * k, 120 * k, call.args.n_fields)

\* the single filter string "griz" with six exposure times of 30 s, over
\* one field, has returned (180 + 42 + 30 + 720)/3600 h
C3_Witness ==
    /\ IsBudgetCall
    /\ call.args = [n_fields |-> 1, filters |-> <<"griz">>,
                    exptimes |-> <<30, 30, 30, 30, 30, 30>>]
    /\ call.res = Returned(Rat(972, 3600))

\* the per-field average cost of n_fields fields: returned hours / n_fields
PerFieldCost(n_fields, filters, exptimes) ==
    RDiv(budget_strategy_nfields_hr(n_fields, filters, exptimes), RInt(n_fields))

\* the per-field average cost does not grow from n_fields to n_fields + 1
AverageNonIncreasing ==
    RLeq(PerFieldCost(call.args.n_fields + 1, call.args.filters, call.args.exptimes),
         RDiv(call.res.v, RInt(call.args.n_fields)))

C15_TotalNonDecreasing ==
    (IsBudgetCall /\ call.args.n_fields >= 1)
    => RLeq(call.res.v,
            budget_strategy_nfields_hr(call.args.n_fields + 1, call.args.filters,
                                       call.args.exptimes))

----------------------------------------------------------------------------
(* Reference values of the tests (rtol = 1e-4) *)

\* self.m5s zipped with self.filters_all
TestM5(f) ==
    CASE f = "u" -> Dec(2370, 2) [] f = "g" -> Dec(2497, 2) [] f = "r" -> Dec(2452, 2)
      [] f = "i" -> Dec(2413, 2) [] f = "z" -> Dec(2356, 2) [] f = "y" -> Dec(2255, 2)

\* test_darksky_exptime_zenith
RefExptimeZenith(f) ==
    CASE f = "u" -> Dec(300954, 4) [] f = "g" -> Dec(300582, 4) [] f = "r" -> Dec(302748, 4)
      [] f = "i" -> Dec(302765, 4) [] f = "z" -> Dec(301380, 4) [] f = "y" -> Dec(299607, 4)

\* test_darksky_exptime_am12, and the same values in test_darksky_exptime_default
RefExptimeAm12(f) ==
    CASE f = "u" -> Dec(357850, 4) [] f = "g" -> Dec(324761, 4) [] f = "r" -> Dec(317601, 4)
      [] f = "i" -> Dec(314127, 4) [] f = "z" -> Dec(309253, 4) [] f = "y" -> Dec(318972, 4)

\* test_darksky_m5_zenith
RefM5Zenith(f) ==
    CASE f = "u" -> Dec(236983, 4) [] f = "g" -> Dec(249689, 4) [] f = "r" -> Dec(245150, 4)
      [] f = "i" -> Dec(241250, 4) [] f = "z" -> Dec(235575, 4) [] f = "y" -> Dec(225507, 4)

\* test_twilight_exptime_zenith and test_twilight_exptime_alt20, bands r, i, z
RefExptimeTwilight(f, X) ==
    IF X = Dec(10, 1)
    THEN CASE f = "r" -> Dec(4421781, 4) [] f = "i" -> Dec(5411251, 4)
           [] f = "z" -> Dec(4736983, 4)
    ELSE CASE f = "r" -> Dec(7002889, 4) [] f = "i" -> Dec(7707219, 4)
           [] f = "z" -> Dec(6067669, 4)

\* test_twilight_m5_zenith, test_twilight_m5_am12 and test_twilight_m5_alt20
RefM5Twilight(f, X) ==
    IF X = Dec(10, 1)
    THEN CASE f = "r" -> Dec(230910, 4) [] f = "i" -> Dec(225838, 4)
           [] f = "z" -> Dec(220777, 4)
    ELSE IF X = Dec(12, 1)
    THEN CASE f = "r" -> Dec(230650, 4) [] f = "i" -> Dec(225638, 4)
           [] f = "z" -> Dec(220637, 4)
    ELSE CASE f = "r" -> Dec(228414, 4) [] f = "i" -> Dec(223918, 4)
           [] f = "z" -> Dec(219433, 4)

----------------------------------------------------------------------------
(* Properties of get_exptime, get_m5 and calc_trailing_losses *)

IsConverterCall == call.op \in {"get_exptime", "get_m5"}

\* a call with a band of the table and no keyword besides X and twilight
IsPlainConverterCall ==
    /\ IsConverterCall
    /\ call.args.filt \in Bands
    /\ call.op = "get_m5" => call.args.kw = {}

\* C4 as stated: no call changes process-wide state: warnings.filters and
\* the parameter table are after every call what they were before it.
C4_NoSharedStateChange ==
    [][warnfilters' = warnfilters /\ params' = params]_vars

\* C5: with twilight=True, get_exptime and get_m5 return nan and never raise
\* for u, g and y, at any airmass and any positive magnitude or exposure time;
\* for r, i and z they return a finite number computed with m_twilight and
\* fwhm_twilight (the values the tests expect for them).
C5_TwilightNaN ==
    (/\ IsPlainConverterCall
     /\ call.args.twilight
     /\ call.op = "get_m5" => FLess(Zero, call.args.exptime.v))
    => /\ call.res.k = "ret"
       /\ call.args.filt \in {"u", "g", "y"} => IsNaN(call.res.v)
       /\ call.args.filt \in {"r", "i", "z"} =>
            /\ IsFinite(call.res.v)
            /\ (/\ call.op = "get_exptime"
                /\ call.args.m5 = TestM5(call.args.filt)
                /\ call.args.X \in {Given(Dec(10, 1)), Given(Dec(292, 2))})
               => IsClose(call.res.v,
                          RefExptimeTwilight(call.args.filt, call.args.X[1]), 4)
            /\ (/\ call.op = "get_m5"
                /\ call.args.exptime.v = Dec(30, 0)
                /\ call.args.X # Omitted)
               => IsClose(call.res.v, RefM5Twilight(call.args.filt, call.args.X[1]), 4)

\* get_m5 for the y band in twilight has returned nan in a process that
\* started with RuntimeWarnings turned into errors
C5_Witness ==
    /\ call.op = "get_m5"
    /\ call.args.twilight
    /\ call.args.filt = "y"
    /\ call.args.kw = {}
    /\ call.args.exptime.v = Dec(30, 0)
    /\ call.res = Returned(NaN)
    /\ \E i \in 1..Len(warnfilters) : warnfilters[i] = <<"error", "RuntimeWarning">>

\* C6 as stated: for a band of the table, get_m5 and get_exptime never raise,
\* whatever exposure time or magnitude is passed, zero and negative included
\* (with the interpreter's warnings not turned into errors).
C6_NeverRaises ==
    (IsPlainConverterCall /\ WarnAction(warnfilters) # "error")
    => call.res.k = "ret"

\* an argument that is not convertible to the dimension of its parameter
NotConvertible(q, units) == q.unit \notin units

\* C7: calc_trailing_losses fails with a dimension error, before any part of
\* the loss formula is evaluated, whenever velocity, seeing or exptime is not
\* convertible to angle/time, angle and time; bare numbers are such a failure
\* and no losses are returned.
C7_DimensionError ==
    (/\ call.op = "calc_trailing_losses"
     /\ \/ NotConvertible(call.args.velocity, {"deg/day", "arcsec/min"})
        \/ NotConvertible(call.args.seeing, {"arcsec", "deg"})
        \/ NotConvertible(call.args.exptime, {"s", "min"}))
    => /\ call.res.k = "raise"
       /\ call.res.exc \in {"TypeError", "UnitsError"}
       /\ ~call.body

\* velocity and seeing carry units and the exposure time is the bare number
\* 15: the call has failed before its body
C7_Witness ==
    /\ call.op = "calc_trailing_losses"
    /\ call.args.velocity.unit = "deg/day"
    /\ call.args.seeing.unit = "arcsec"
    /\ call.args.exptime = Qty(Dec(15, 0), "")
    /\ call.res = Raised("TypeError")
    /\ ~call.body

C9_DefaultIsAm12 ==
    (IsPlainConverterCall /\ call.args.X = Omitted /\ call.res.k = "ret")
    => /\ call.op = "get_exptime" =>
            call.res = get_exptime(params, warnfilters, call.args.m5, call.args.filt,
                                   Given(Dec(12, 1)), call.args.twilight).res
       /\ call.op = "get_m5" =>
            call.res = get_m5(params, warnfilters, call.args.exptime, call.args.filt,
                              Given(Dec(12, 1)), call.args.twilight, {}).res
       /\ (/\ call.op = "get_exptime"
           /\ ~call.args.twilight
           /\ call.args.m5 = TestM5(call.args.filt))
          => IsClose(call.res.v, RefExptimeAm12(call.args.filt), 4)

\* C10 as stated: get_m5 called with the keyword velocity returns without
\* error a depth smaller than the depth of a stationary target.
C10_VelocityDepth ==
    (/\ call.op = "get_m5"
     /\ call.args.kw = {"velocity"}
     /\ call.args.filt \in Bands
     /\ FLess(Zero, call.args.exptime.v))
    => /\ call.res.k = "ret"
       /\ FLess(call.res.v,
                get_m5(params, warnfilters, call.args.exptime, call.args.filt,
                       call.args.X, call.args.twilight, {}).res.v)

\* a dark-sky call with a band of the table at airmass 1.0 or 1.2 has returned
IsRoundTripCall ==
    /\ IsPlainConverterCall
    /\ ~call.args.twilight
    /\ call.args.X \in {Given(Dec(10, 1)), Given(Dec(12, 1))}
    /\ call.res.k = "ret"

\* C12: for every band and airmass 1.0 or 1.2, get_exptime and get_m5 are
\* mutual inverses when chained: get_exptime(get_m5(t, f, X), f, X) recovers
\* the positive exposure time t, and get_m5(get_exptime(m, f, X), f, X)
\* recovers the depth m, both to a relative tolerance of 1e-3.
C12_RoundTrip ==
    IsRoundTripCall
    => /\ (call.op = "get_m5" /\ FLess(Zero, call.args.exptime.v))
          => LET back == get_exptime(params, warnfilters, call.res.v, call.args.filt,
                                     call.args.X, FALSE).res
             IN  back.k = "ret" /\ IsClose(back.v, call.args.exptime.v, 3)
       /\ call.op = "get_exptime"
          => LET back == get_m5(params, warnfilters, [ty |-> "np", v |-> call.res.v],
                                call.args.filt, call.args.X, FALSE, {}).res
             IN  back.k = "ret" /\ IsClose(back.v, call.args.m5, 3)

----------------------------------------------------------------------------
(* Properties of calc_trailing_losses *)

\* a call with a velocity >= 0 and positive seeing and exposure time has
\* returned its two losses
IsLossCall ==
    /\ call.op = "calc_trailing_losses"
    /\ call.res.k = "ret"
    /\ ~FLess(ToUnit(call.args.velocity, "deg/day"), Zero)
    /\ FLess(Zero, ToUnit(call.args.seeing, "arcsec"))
    /\ FLess(Zero, ToUnit(call.args.exptime, "s"))

\* C13: with fixed positive seeing and exposure time, dmag_trail and
\* dmag_detect are exactly zero at velocity zero, are non-negative for every
\* velocity >= 0, and increase with the velocity: a faster velocity of the
\* same call gives larger losses.
C13_TrailingLosses ==
    IsLossCall
    => LET v == ToUnit(call.args.velocity, "deg/day")
       IN  /\ \A i \in 1..2 : IsFinite(call.res.v[i]) /\ ~FLess(call.res.v[i], Zero)
           /\ IsZero(v) => call.res.v = <<Zero, Zero>>
           /\ \A v2 \in VelocityArgs :
                 (quantity_check(v2, "deg/day") = "" /\ FLess(v, ToUnit(v2, "deg/day")))
                 => LET r2 == calc_trailing_losses(warnfilters, v2, call.args.seeing,
                                                   call.args.exptime).res
                    IN  /\ r2.k = "ret"
                        /\ \A i \in 1..2 : FLess(call.res.v[i], r2.v[i])

\* 2 deg/day under 0.8 arcsec of seeing in 30 s has returned the losses of
\* test_defaults, between those of 1 arcsec/min and of 10 deg/day
C13_Witness ==
    /\ IsLossCall
    /\ call.args = [velocity |-> Qty(Dec(2, 0), "deg/day"),
                    seeing |-> Qty(Dec(8, 1), "arcsec"), exptime |-> Qty(Dec(30, 0), "s")]
    /\ IsClose(call.res.v[1], Dec(519691, 6), 4)
    /\ IsClose(call.res.v[2], Dec(880560, 6), 4)

----------------------------------------------------------------------------
(* Properties of query_close_approachers *)

IsQueryCall == call.op = "query_close_approachers"

\* the remote call succeeded: a response with status 200 was received
RemoteSucceeded == call.remote.kind = "response" /\ call.remote.status = 200

\* C14: query_close_approachers makes exactly one remote request per call,
\* without retry; whenever the remote call does not succeed (a response other
\* than success, or a request that fails outright) it returns the empty result
\* instead of raising; and it returns a decoded catalogue only when the call
\* succeeded.
C14_EmptyOnFailure ==
    IsQueryCall
    => /\ Len(call.requests) = 1
       /\ ~RemoteSucceeded => call.res = Returned(close_approachers_empty)
       /\ (call.res.k = "ret" /\ call.res.v # close_approachers_empty) => RemoteSucceeded

====
